---- MODULE Spec2Model ----
(***************************************************************************)
(* pyscale.LoadPredictor (src/pyscale/load_predictor.py, Python 2).        *)
(*                                                                         *)
(* One predictor instance and its caller.  The constructor is one action   *)
(* (Construct); the three queries are one action each; CallerMutate is the *)
(* caller changing a list object it was handed by survival_data().         *)
(*                                                                         *)
(* Lists are objects on a heap and fields hold references, as in Python.   *)
(* Floats are modelled in exact arithmetic: a frequency is a reduced       *)
(* fraction <<num, den>>, a load is an integer number of thousandths.      *)
(* A probability is an integer number of tenths.                           *)
(***************************************************************************)
EXTENDS Integers, Sequences, FiniteSets, TLC

VARIABLES
    pc,            \* "start" | "constructed" | "failed"
    data,          \* argument data of __init__
    block_size_arg,\* argument block_size of __init__
    raised,        \* message of the exception the last call raised, "" if none
    warnings,      \* messages passed to warnings.warn, in order
    heap,          \* list objects; a reference is an index, 0 is no object
    block_size,    \* self.__block_size
    values,        \* self.__values       (reference)
    frequencies,   \* self.__frequencies  (reference)
    shape,         \* self.__shape
    location,      \* self.__location
    scale,         \* self.__scale
    block_maxima,  \* local block_maxima, as passed to gumbel.fit
    built,         \* the two lists as they were when __init__ returned
    call,          \* the last query called
    ret,           \* what it returned
    held,          \* references the caller got from survival_data()
    mutations      \* number of caller modifications so far

vars == <<pc, data, block_size_arg, raised, warnings, heap, block_size, values,
          frequencies, shape, location, scale, block_maxima, built, call, ret,
          held, mutations>>

fields == <<block_size, values, frequencies, shape, location, scale>>

(***************************************************************************)
(* Bounds of the model and constants of the program.                       *)
(***************************************************************************)
MaxLen == 11
MaxPat == 4
MaxArg == 3
MaxMutations == 1

MinData == 10
AutoDivisor == 20
\* sys.maxint of a 32-bit build; the loop only needs it to be below every sample
maxint == 2147483647

NotEnoughData == "Not enough data to make predictions"
InvalidBlockSize == "Invalid block size, set it to 1"

(***************************************************************************)
(* Exact fractions <<num, den>>, den > 0, reduced.                         *)
(***************************************************************************)
Abs(x) == IF x < 0 THEN -x ELSE x

RECURSIVE GCD(_, _)
GCD(a, b) == IF b = 0 THEN a ELSE GCD(b, a % b)

Frac(num, den) ==
    LET g == GCD(Abs(num), den)
    IN  <<num \div g, den \div g>>

FracAdd(x, y) == Frac(x[1] * y[2] + y[1] * x[2], x[2] * y[2])
FracSub(x, y) == Frac(x[1] * y[2] - y[1] * x[2], x[2] * y[2])

Range(s) == {s[i] : i \in 1..Len(s)}

(***************************************************************************)
(* __init__, lines 38-90.                                                  *)
(***************************************************************************)
\* if len(data) < 10   (TooShortOffByOne: the faulty variant "< 9")
TooShortOffByOne(d) == Len(d) < MinData - 1
TooShort(d) == Len(d) < MinData

\* lines 45-55: the block size kept, and the warnings emitted
\* (ResolveNoClamp: the faulty variant without lines 53-55)
ResolveNoClamp(n, arg) ==
    [block_size |-> IF arg # 0 THEN arg ELSE n \div AutoDivisor,
     warnings |-> <<>>]
ResolveBlockSize(n, arg) ==
    LET chosen == IF arg # 0 THEN arg ELSE n \div AutoDivisor
    IN  IF chosen < 1
        THEN [block_size |-> 1, warnings |-> <<InvalidBlockSize>>]
        ELSE [block_size |-> chosen, warnings |-> <<>>]

\* lines 57-60: the loop's variables before the first iteration
ScanStart ==
    [histogram |-> <<>>,
     block_maxima |-> <<>>,
     current_block_size |-> 0,
     current_block_maximum |-> -maxint - 1]

\* lines 63-74: one iteration of "for value in data"
ScanStep(st, value, bsize) ==
    LET histogram == IF value \in DOMAIN st.histogram
                     THEN [st.histogram EXCEPT ![value] = @ + 1]
                     ELSE (value :> 1) @@ st.histogram
        size == st.current_block_size + 1
        maximum == IF value > st.current_block_maximum
                   THEN value
                   ELSE st.current_block_maximum
    IN  IF size = bsize
        THEN [histogram |-> histogram,
              block_maxima |-> Append(st.block_maxima, maximum),
              current_block_size |-> 0,
              current_block_maximum |-> 0]
        ELSE [histogram |-> histogram,
              block_maxima |-> st.block_maxima,
              current_block_size |-> size,
              current_block_maximum |-> maximum]

RECURSIVE Scan(_, _, _, _)
Scan(d, i, bsize, st) ==
    IF i > Len(d) THEN st
    ELSE Scan(d, i + 1, bsize, ScanStep(st, d[i], bsize))

\* list.sort() on the keys: ascending
RECURSIVE sort(_)
sort(S) ==
    IF S = {} THEN <<>>
    ELSE LET m == CHOOSE x \in S : \A y \in S : x <= y
         IN  <<m>> \o sort(S \ {m})

\* list.pop(): the list without its last element
pop(list) == SubSeq(list, 1, Len(list) - 1)

\* lines 77-79: keys(), sort(), pop()
\* (KeysDescendingPopped: the faulty variant sorting downwards;
\*  KeysSortedNotPopped: the faulty variant without the pop)
KeysDescendingPopped(histogram) ==
    LET RECURSIVE down(_)
        down(S) == IF S = {} THEN <<>>
                   ELSE LET m == CHOOSE x \in S : \A y \in S : x >= y
                        IN  <<m>> \o down(S \ {m})
    IN  pop(down(DOMAIN histogram))
KeysSortedNotPopped(histogram) == sort(DOMAIN histogram)
SurvivalValues(histogram) == pop(sort(DOMAIN histogram))

\* lines 80-84
\* (FrequenciesBefore: the faulty variant appending 1 - previous before the
\*  value's own share is added)
RECURSIVE FrequenciesBefore(_, _, _, _, _)
FrequenciesBefore(vals, histogram, n, i, previous) ==
    IF i > Len(vals) THEN <<>>
    ELSE <<FracSub(<<1, 1>>, previous)>>
         \o FrequenciesBefore(vals, histogram, n, i + 1,
                FracAdd(Frac(histogram[vals[i]], n), previous))
RECURSIVE SurvivalFrequencies(_, _, _, _, _)
SurvivalFrequencies(vals, histogram, n, i, previous) ==
    IF i > Len(vals) THEN <<>>
    ELSE LET next == FracAdd(Frac(histogram[vals[i]], n), previous)
         IN  <<FracSub(<<1, 1>>, next)>>
             \o SurvivalFrequencies(vals, histogram, n, i + 1, next)

\* line 87: gumbel.fit is a numerical maximum-likelihood routine of scipy; its
\* result is any (location, scale) with scale > 0, in whole units here.
fit(maxima) == {<<-1, 1>>, <<4, 3>>}

(***************************************************************************)
(* The queries, lines 92-169.                                              *)
(***************************************************************************)
\* scipy's gumbel_r._isf(q) = -log(-log1p(-q)) at q = 1/10 .. 9/10, in thousandths
IsfTable == <<2250, 1500, 1031, 672, 367, 87, -186, -476, -834>>
Tenths == Len(IsfTable) + 1

\* scipy's rv_continuous.isf: NaN for bad arguments, the support's ends at q = 1
\* and q = 0, loc + scale * _isf(q) inside
\* (isfClosed: the faulty variant taking q = 0 and q = 1 as inside;
\*  ppf: the faulty variant using the quantile of 1 - survival)
isfClosed(q, loc, scl) ==
    IF scl <= 0 \/ q < 0 \/ q > Tenths THEN [kind |-> "nan"]
    ELSE [kind |-> "finite",
          milli |-> 1000 * loc + scl * IsfTable[IF q = 0 THEN 1
                                                ELSE IF q = Tenths THEN Tenths - 1
                                                ELSE q]]
ppf(q, loc, scl) ==
    IF scl <= 0 \/ q < 0 \/ q > Tenths THEN [kind |-> "nan"]
    ELSE IF q = Tenths THEN [kind |-> "inf"]
    ELSE IF q = 0 THEN [kind |-> "-inf"]
    ELSE [kind |-> "finite", milli |-> 1000 * loc + scl * IsfTable[Tenths - q]]
isf(q, loc, scl) ==
    IF scl <= 0 \/ q < 0 \/ q > Tenths THEN [kind |-> "nan"]
    ELSE IF q = Tenths THEN [kind |-> "-inf"]
    ELSE IF q = 0 THEN [kind |-> "inf"]
    ELSE [kind |-> "finite", milli |-> 1000 * loc + scl * IsfTable[q]]

\* line 119
predict_load(probability, loc, scl) == isf(probability, loc, scl)

\* line 144: the tuple holds the two list objects themselves
\* (survival_data_popping: the faulty variant doing line 79's pop here)
survival_data_popping(h, vref, fref) ==
    [heap |-> [h EXCEPT ![vref] = pop(@)],
     ret |-> [kind |-> "tuple", values |-> vref, frequencies |-> fref]]
survival_data(h, vref, fref) ==
    [heap |-> h,
     ret |-> [kind |-> "tuple", values |-> vref, frequencies |-> fref]]

\* line 169
gev_parameters(shp, loc, scl) ==
    [kind |-> "params", shape |-> shp, location |-> loc, scale |-> scl]

(***************************************************************************)
(* Inputs.                                                                 *)
(***************************************************************************)
SampleValues == {-3, -1, 0, 2}

\* the pattern pat repeated up to length n
Cyclic(pat, n) == [i \in 1..n |-> pat[((i - 1) % Len(pat)) + 1]]

Patterns == UNION {[1..k -> SampleValues] : k \in 1..MaxPat}
SampleLens == {0, MinData - 1} \cup (MinData..MaxLen)
                  \cup {AutoDivisor - 1, AutoDivisor,
                        2 * AutoDivisor, 2 * AutoDivisor + 5}
Samples == {Cyclic(pat, n) : pat \in Patterns, n \in SampleLens}
BlockSizeArgs == (-1..MaxArg) \cup {2 * AutoDivisor}

\* the docstrings' samples (lines 34-35 and 137-138), and two short ones
DocData20 == <<4352, 4472, 3847, 4915, 4969, 4333, 4381, 4091, 4135, 4160,
               3534, 4598, 4086, 3788, 4038, 3396, 4118, 3822, 4333, 4034>>
DocData10 == <<4352, 4472, 3847, 4915, 4969, 4333, 4381, 4091, 4135, 4034>>
QuerySamples == {DocData20, DocData10, SubSeq(DocData10, 1, MinData - 1),
                 Cyclic(<<-3, 2, 0, 2>>, MinData + 1)}
QueryBlockSizeArgs == {0, 2}

Probabilities == -1..(Tenths + 1)

(***************************************************************************)
(* The state machine.                                                      *)
(***************************************************************************)
NoCall == [op |-> "none"]
NoRet == [kind |-> "none"]

InitWith(samples, args) ==
    /\ pc = "start"
    /\ data \in samples
    /\ block_size_arg \in args
    /\ raised = ""
    /\ warnings = <<>>
    /\ heap = <<>>
    /\ block_size = 0
    /\ values = 0
    /\ frequencies = 0
    /\ shape = 0
    /\ location = 0
    /\ scale = 0
    /\ block_maxima = <<>>
    /\ built = <<>>
    /\ call = NoCall
    /\ ret = NoRet
    /\ held = {}
    /\ mutations = 0

Init == InitWith(QuerySamples, QueryBlockSizeArgs)

InitConstruct == InitWith(Samples, BlockSizeArgs)

\* LoadPredictor(data, block_size), lines 38-90
Construct ==
    /\ pc = "start"
    /\ IF TooShort(data)
       THEN /\ pc' = "failed"
            /\ raised' = NotEnoughData
            /\ UNCHANGED <<warnings, heap, fields, block_maxima, built>>
       ELSE LET n == Len(data)
                resolved == ResolveBlockSize(n, block_size_arg)
                scan == Scan(data, 1, resolved.block_size, ScanStart)
                vals == SurvivalValues(scan.histogram)
                freqs == SurvivalFrequencies(vals, scan.histogram, n, 1, <<0, 1>>)
            IN  \E params \in fit(scan.block_maxima) :
                    /\ pc' = "constructed"
                    /\ raised' = ""
                    /\ warnings' = resolved.warnings
                    /\ block_size' = resolved.block_size
                    /\ heap' = <<vals, freqs>>
                    /\ values' = 1
                    /\ frequencies' = 2
                    /\ block_maxima' = scan.block_maxima
                    /\ shape' = 0
                    /\ location' = params[1]
                    /\ scale' = params[2]
                    /\ built' = <<vals, freqs>>
    /\ UNCHANGED <<data, block_size_arg, call, ret, held, mutations>>

\* predictor.predict_load(probability)
PredictLoad ==
    /\ pc = "constructed"
    /\ \E probability \in Probabilities :
        /\ call' = [op |-> "predict_load", probability |-> probability]
        /\ ret' = predict_load(probability, location, scale)
    /\ raised' = ""
    /\ UNCHANGED <<pc, data, block_size_arg, warnings, heap, fields,
                   block_maxima, built, held, mutations>>

\* predictor.survival_data()
SurvivalData ==
    /\ pc = "constructed"
    /\ LET r == survival_data(heap, values, frequencies)
       IN  /\ heap' = r.heap
           /\ ret' = r.ret
           /\ held' = {r.ret.values, r.ret.frequencies}
    /\ call' = [op |-> "survival_data"]
    /\ raised' = ""
    /\ UNCHANGED <<pc, data, block_size_arg, warnings, fields, block_maxima,
                   built, mutations>>

\* predictor.gev_parameters()
GevParameters ==
    /\ pc = "constructed"
    /\ call' = [op |-> "gev_parameters"]
    /\ ret' = gev_parameters(shape, location, scale)
    /\ raised' = ""
    /\ UNCHANGED <<pc, data, block_size_arg, warnings, heap, fields,
                   block_maxima, built, held, mutations>>

\* The caller changes a list it holds: append, remove the last element, or
\* overwrite the first one.  The new element is the list's own kind: the
\* sample's first value, or the frequency 0.
NewElement(ref) == IF ref = values THEN data[1] + 1 ELSE <<0, 1>>

CallerMutate ==
    /\ pc = "constructed"
    /\ mutations < MaxMutations
    /\ \E ref \in held :
        \/ heap' = [heap EXCEPT ![ref] = Append(@, NewElement(ref))]
        \/ /\ heap[ref] # <<>>
           /\ heap' = [heap EXCEPT ![ref] = pop(@)]
        \/ /\ heap[ref] # <<>>
           /\ heap' = [heap EXCEPT ![ref][1] = NewElement(ref)]
    /\ mutations' = mutations + 1
    /\ call' = [op |-> "caller"]
    /\ ret' = NoRet
    /\ UNCHANGED <<pc, data, block_size_arg, raised, warnings, fields,
                   block_maxima, built, held>>

Next ==
    \/ Construct
    \/ PredictLoad
    \/ SurvivalData
    \/ GevParameters
    \/ CallerMutate

Spec == Init /\ [][Next]_vars

NextConstruct == Construct

SpecConstruct == InitConstruct /\ [][NextConstruct]_vars

(***************************************************************************)
(* Properties.                                                             *)
(***************************************************************************)
FracLess(x, y) == x[1] * y[2] < y[1] * x[2]
FracLeq(x, y) == x[1] * y[2] <= y[1] * x[2]

SetMax(S) == CHOOSE x \in S : \A y \in S : x >= y

\* number of samples strictly greater than v
Greater(d, v) == Cardinality({i \in 1..Len(d) : d[i] > v})

Constructed == pc = "constructed"

\* C1: a sample of fewer than 10 elements makes construction fail with the
\* not-enough-data error, whatever block_size is, and nothing else has happened:
\* no block size, no warning, no list, no block maxima, no fit.
C1_ShortSampleFails ==
    (pc # "start" /\ Len(data) < 10) =>
        /\ pc = "failed"
        /\ raised = NotEnoughData
        /\ warnings = <<>>
        /\ heap = <<>>
        /\ fields = <<0, 0, 0, 0, 0, 0>>
        /\ block_maxima = <<>>

C1_Witness == pc = "failed" /\ Len(data) = 9 /\ block_size_arg < 0

\* C2: for a sample of n >= 10 elements, frequencies[i] is exactly the number
\* of samples strictly greater than values[i], divided by n.
C2_FrequencyIsFractionAbove ==
    Constructed =>
        /\ Len(heap[frequencies]) = Len(heap[values])
        /\ \A i \in 1..Len(heap[values]) :
               heap[frequencies][i][1] * Len(data)
                   = Greater(data, heap[values][i]) * heap[frequencies][i][2]

C2_Witness ==
    /\ Constructed
    /\ Len(heap[values]) >= 2
    /\ Greater(data, heap[values][1]) - Greater(data, heap[values][2]) >= 2

\* C3: for a sample of n >= 10 elements the table is two sequences of equal
\* length, values strictly ascending, every frequency strictly between 0 and
\* 1, frequencies non-increasing.
C3_TableShape ==
    Constructed =>
        LET v == heap[values]
            f == heap[frequencies]
        IN  /\ Len(v) = Len(f)
            /\ \A i \in 1..(Len(v) - 1) : v[i] < v[i + 1]
            /\ \A i \in 1..Len(f) : FracLess(<<0, 1>>, f[i]) /\ FracLess(f[i], <<1, 1>>)
            /\ \A i \in 1..(Len(f) - 1) : FracLeq(f[i + 1], f[i])

C3_Witness == Constructed /\ Len(heap[values]) >= 3 /\ Len(heap[frequencies]) >= 3

\* C4: for a sample of n >= 10 elements the table's values are the distinct
\* sample values without the largest one, each exactly once.
C4_ValuesAreDistinctButMax ==
    Constructed =>
        /\ Range(heap[values]) = Range(data) \ {SetMax(Range(data))}
        /\ Len(heap[values]) = Cardinality(Range(data)) - 1

C4_Witness ==
    /\ Constructed
    /\ heap[values] # <<>>
    /\ Greater(data, heap[values][Len(heap[values])]) >= 2

C4_WitnessAllEqual == Constructed /\ heap[values] = <<>>

\* C5: for a sample of n >= 10 elements and an integer block_size b, the block
\* size kept is b when b > 0, floor(n/20) when b = 0 and floor(n/20) >= 1, and
\* 1, with a warning and construction going on, when b < 0 or b = 0 and n < 20;
\* it is always >= 1.
C5_BlockSizePolicy ==
    LET n == Len(data)
        b == block_size_arg
    IN  (pc # "start" /\ n >= 10) =>
            /\ Constructed
            /\ b > 0 => block_size = b
            /\ (b = 0 /\ n \div 20 >= 1) => block_size = n \div 20
            /\ (b < 0 \/ (b = 0 /\ n < 20)) =>
                   block_size = 1 /\ warnings = <<InvalidBlockSize>>
            /\ block_size >= 1

C5_Witness == Constructed /\ block_size_arg < 0 /\ warnings # <<>>

C5_WitnessAuto == Constructed /\ block_size_arg = 0 /\ block_size = 2

\* C6: for a sample of integers of any sign and the block size B kept, the
\* block maxima have length floor(n/B) and the k-th one is the maximum of
\* samples (k-1)*B+1 .. k*B (1-based); the last n mod B samples give none.
C6_BlockMaxima ==
    Constructed =>
        LET n == Len(data)
            B == block_size
        IN  /\ Len(block_maxima) = n \div B
            /\ \A k \in 1..Len(block_maxima) :
                   block_maxima[k]
                       = SetMax({data[i] : i \in ((k - 1) * B + 1)..(k * B)})

\* what the loop does compute: the first block's maximum, and for every later
\* block the maximum of its samples and 0
C6_BlockMaximaAsCoded ==
    Constructed =>
        LET n == Len(data)
            B == block_size
        IN  /\ Len(block_maxima) = n \div B
            /\ \A k \in 1..Len(block_maxima) :
                   block_maxima[k]
                       = SetMax({data[i] : i \in ((k - 1) * B + 1)..(k * B)}
                                \cup (IF k = 1 THEN {} ELSE {0}))

\* C7 as stated: predict_load fails with a domain error for a probability
\* outside the open interval (0,1), and returns nothing.
Outside(p) == p <= 0 \/ p >= Tenths

C7_DomainErrorRaised ==
    (call.op = "predict_load" /\ Outside(call.probability)) =>
        raised # "" /\ ret = NoRet

\* C7 as amended: for a probability outside (0,1) predict_load raises nothing
\* and returns a value that is not finite; the predictor is unchanged and
\* still constructed.
C7_NonFiniteReturned ==
    [][(call'.op = "predict_load" /\ Outside(call'.probability)) =>
           /\ raised' = ""
           /\ ret'.kind \in {"inf", "-inf", "nan"}
           /\ fields' = fields
           /\ heap' = heap
           /\ pc' = "constructed"]_vars

C7_Witness ==
    /\ call.op = "predict_load"
    /\ call.probability = 0
    /\ ret.kind = "inf"

\* C8: a call of predict_load, survival_data or gev_parameters leaves the
\* block size, the two lists and shape, location, scale as they were, and a
\* query repeated with the same argument returns the same result.
Queries == {"predict_load", "survival_data", "gev_parameters"}

C8_QueriesChangeNothing ==
    [][call'.op \in Queries =>
           /\ fields' = fields
           /\ heap'[values'] = heap[values]
           /\ heap'[frequencies'] = heap[frequencies]
           /\ call' = call => ret' = ret]_vars

C8_Witness ==
    /\ call.op = "survival_data"
    /\ mutations = 0
    /\ <<heap[ret.values], heap[ret.frequencies]>> = built
    /\ built[1] # <<>>

\* C9: of two successive predict_load calls with probabilities p1 < p2 inside
\* (0,1), the second returns no more than the first.
Inside(p) == 0 < p /\ p < Tenths

C9_PredictLoadNonIncreasing ==
    [][( /\ call.op = "predict_load"
         /\ call'.op = "predict_load"
         /\ Inside(call.probability)
         /\ Inside(call'.probability)
         /\ call.probability < call'.probability ) =>
           /\ ret.kind = "finite"
           /\ ret'.kind = "finite"
           /\ ret.milli >= ret'.milli]_vars

C9_Witness ==
    /\ call.op = "predict_load"
    /\ call.probability = Tenths - 1
    /\ ret.kind = "finite"
    /\ ret.milli < 1000 * location

\* C10: survival_data() returns the table built at construction, whatever the
\* caller did to the sequences an earlier call returned.
C10_TableKeptFromCaller ==
    call.op = "survival_data" =>
        <<heap[ret.values], heap[ret.frequencies]>> = built

====
